---- MODULE Spec2Model ----
(***************************************************************************)
(* A model of bridgeproxy: the peer-chain dialer (DialProxy of the         *)
(* readLine generation and DialProxyInternal of the http.ReadResponse      *)
(* generation), the background-dialing connection pool (DialProxy with    *)
(* the tcpConnections map) and the SNI hijacker (hijackTLSRequest).        *)
(*                                                                         *)
(* Texts (host names, status lines, pool keys) are sequences of one-       *)
(* character strings, so that prefix tests, formatting and parsing are     *)
(* computed and not assumed.                                               *)
(***************************************************************************)
EXTENDS Integers, Sequences, FiniteSets, TLC

\* ------------------------------------------------------------------ bounds

\* Longest peer chain that is dialed.
MaxChainLen == 2

\* Number of client connections accepted by the hijack listeners.
NumClients == 2

\* Number of sockets the background dialers may open in one run.
MaxSocks == 2

\* Number of bytes a relay is followed for.
MaxBytes == 2

\* ------------------------------------------------------------------- texts

Digits == <<"0", "1", "2", "3", "4", "5", "6", "7", "8", "9">>

IsDigit(ch) == \E k \in 1..10 : Digits[k] = ch

DigitValue(ch) == (CHOOSE k \in 1..10 : Digits[k] = ch) - 1

\* strings.HasPrefix
HasPrefix(s, prefix) ==
    /\ Len(prefix) <= Len(s)
    /\ SubSeq(s, 1, Len(prefix)) = prefix

\* strings.Index for a one-character separator; 0 when absent
\* (positions are 1-based).
IndexOf(s, ch) ==
    IF \E k \in 1..Len(s) : s[k] = ch
    THEN CHOOSE k \in 1..Len(s) : s[k] = ch /\ \A j \in 1..(k - 1) : s[j] # ch
    ELSE 0

\* strings.Index: the first place at which pat occurs in text, 0 when it
\* does not (positions are 1-based).
Find(text, pat) ==
    LET at == { k \in 1..(Len(text) - Len(pat) + 1) :
                  SubSeq(text, k, k + Len(pat) - 1) = pat }
    IN  IF at = {} THEN 0 ELSE CHOOSE k \in at : \A j \in at : k <= j

\* fmt's %d for a non-negative integer.
RECURSIVE FormatInt(_)
FormatInt(n) ==
    IF n < 10 THEN <<Digits[n + 1]>>
    ELSE FormatInt(n \div 10) \o <<Digits[(n % 10) + 1]>>

\* strconv.Atoi for a non-empty run of digits.
RECURSIVE Atoi(_)
Atoi(s) ==
    IF Len(s) = 0 THEN 0
    ELSE 10 * Atoi(SubSeq(s, 1, Len(s) - 1)) + DigitValue(s[Len(s)])

\* strings.TrimLeft(s, " ")
RECURSIVE TrimLeftSpaces(_)
TrimLeftSpaces(s) ==
    IF Len(s) > 0 /\ s[1] = " " THEN TrimLeftSpaces(Tail(s)) ELSE s

HTTP10 == <<"H", "T", "T", "P", "/", "1", ".", "0">>
HTTP11 == <<"H", "T", "T", "P", "/", "1", ".", "1">>
HTTP20 == <<"H", "T", "T", "P", "/", "2", ".", "0">>

Prefix10_200 == HTTP10 \o <<" ", "2", "0", "0">>
Prefix11_200 == HTTP11 \o <<" ", "2", "0", "0">>

\* Status lines a proxy may answer a CONNECT with.
StatusLines ==
    { HTTP10 \o <<" ", "2", "0", "0", " ", "O", "K">>,
      HTTP11 \o <<" ", "2", "0", "0", " ", "O", "K">>,
      HTTP11 \o <<" ", "4", "0", "4", " ", "N", "o">>,
      HTTP11 \o <<" ", "2", "0", "0", "0", " ", "X">>,
      HTTP20 \o <<" ", "2", "0", "0", " ", "O", "K">>,
      <<"S", "S", "H", "-", "2">> }

\* ------------------------------------------------------------------- peers

HostA == <<"a">>
HostB == <<"b">>

NoExtra == {}
AuthExtra == { <<"Proxy-Authorization", "x">> }

\* type Peer: TLS stands for TLSConfig != nil.
Peer(host, port, tls, extra) ==
    [HostName |-> host, Port |-> port, TLS |-> tls, ConnectExtra |-> extra]

PeersOver(hosts, ports, extras) ==
    { Peer(h, p, t, x) : h \in hosts, p \in ports, t \in BOOLEAN, x \in extras }

\* All non-empty chains of at most n peers drawn from ps.
ChainsOver(ps, n) == UNION { [1..k -> ps] : k \in 1..n }

\* ------------------------------------------------------------- connections

\* A net.Conn value: the socket it rests on (0: the nil interface) and the
\* wrappers put around it, innermost first.
NilConn == [sock |-> 0, layers |-> <<>>]

RawConn(s) == [sock |-> s, layers |-> <<>>]

WrapNothing(c, layer) == c

Wrap(c, layer) == [c EXCEPT !.layers = Append(@, layer)]

\* Whether c.Close() closes the socket c rests on. Close of a tls.Conn sends
\* the close alert and closes the connection beneath it; Close of an
\* httpConnectResponseConn closes the response body and leaves the
\* connection beneath it alone.
RECURSIVE ClosesSocket(_)
ClosesSocket(c) ==
    IF c.layers = <<>> THEN c.sock # 0
    ELSE IF c.layers[Len(c.layers)] = "body" THEN FALSE
    ELSE ClosesSocket([c EXCEPT !.layers = SubSeq(@, 1, Len(@) - 1)])

\* An error value: what failed and the host name the message carries.
NoErr == [kind |-> "nil", host |-> <<>>]

Err(kind, host) == [kind |-> kind, host |-> host]

\* ------------------------------------------------- the CONNECT exchange

\* What the peer at the other end does during one CONNECT exchange: whether
\* the request can be written (and where writing fails), whether the status
\* line can be read, the status line, and whether what follows the status
\* line can be read.
ConnectEnv(write, read, line, rest) ==
    [write |-> write, read |-> read, line |-> line, rest |-> rest]

AnyLine == CHOOSE l \in StatusLines : TRUE

ConnectEnvs ==
    { ConnectEnv(w, "ok", AnyLine, "ok") : w \in {"line", "header", "end"} }
    \cup { ConnectEnv("ok", "err", AnyLine, "ok") }
    \cup { ConnectEnv("ok", "ok", l, r) : l \in StatusLines, r \in {"ok", "err"} }

\* The reply of an exchange that has not taken place.
NoReply == ConnectEnv("none", "none", <<>>, "none")

\* net/http.ParseHTTPVersion: "HTTP/" followed by digit "." digit.
ParseHTTPVersion(vers) ==
    /\ HasPrefix(vers, <<"H", "T", "T", "P", "/">>)
    /\ Len(vers) = 8
    /\ IsDigit(vers[6])
    /\ vers[7] = "."
    /\ IsDigit(vers[8])

\* The status line as http.ReadResponse takes it apart: the protocol up to
\* the first space, then the status code up to the next space.
StatusProto(line) == SubSeq(line, 1, IndexOf(line, " ") - 1)

StatusText(line) ==
    TrimLeftSpaces(SubSeq(line, IndexOf(line, " ") + 1, Len(line)))

StatusCodeText(line) ==
    LET status == StatusText(line)
        sp == IndexOf(status, " ")
    IN  IF sp = 0 THEN status ELSE SubSeq(status, 1, sp - 1)

\* http.ReadResponse(bufio.NewReader(connection), &req): an error when the
\* status line or the header block cannot be read or is malformed, the
\* parsed status code otherwise.
ReadResponse(env) ==
    LET malformed ==
            \/ IndexOf(env.line, " ") = 0
            \/ Len(StatusCodeText(env.line)) # 3
            \/ \E k \in 1..Len(StatusCodeText(env.line)) :
                  ~IsDigit(StatusCodeText(env.line)[k])
            \/ ~ParseHTTPVersion(StatusProto(env.line))
    IN  IF env.read = "err" \/ malformed \/ env.rest = "err"
        THEN [err |-> TRUE, StatusCode |-> 0]
        ELSE [err |-> FALSE, StatusCode |-> Atoi(StatusCodeText(env.line))]

\* doHTTPConnect of the readLine generation: the CONNECT line, one line per
\* extra header of activePeer, the empty line; then the status line, which
\* must begin with HTTP/1.0 200 or HTTP/1.1 200, and one more line. The
\* connection handed in is returned in every case.
doHTTPConnectReadLine(connection, peer, activePeer, env) ==
    IF env.write = "line"
    THEN [c |-> connection, e |-> Err("failure writing CONNECT", peer.HostName)]
    ELSE IF env.write = "header" /\ activePeer.ConnectExtra # {}
    THEN [c |-> connection,
          e |-> Err("failure writing CONNECT header", peer.HostName)]
    ELSE IF env.write = "end"
    THEN [c |-> connection,
          e |-> Err("failure writing CONNECT end of headers", peer.HostName)]
    ELSE IF env.read = "err"
    THEN [c |-> connection, e |-> Err("could not CONNECT", peer.HostName)]
    ELSE IF ~HasPrefix(env.line, Prefix10_200) /\ ~HasPrefix(env.line, Prefix11_200)
    THEN [c |-> connection, e |-> Err("could not CONNECT", peer.HostName)]
    ELSE IF env.rest = "err"
    THEN [c |-> connection, e |-> Err("Missing second line", peer.HostName)]
    ELSE [c |-> connection, e |-> NoErr]

\* doHTTPConnect of the http.ReadResponse generation: the request is written
\* by req.Write, the response parsed by http.ReadResponse; on success the
\* connection is wrapped so that reads come from the response body.
doHTTPConnect(connection, peer, activePeer, env) ==
    IF env.write # "ok"
    THEN [c |-> connection, e |-> Err("connecting", peer.HostName)]
    ELSE IF ReadResponse(env).err
    THEN [c |-> connection, e |-> Err("reading response", peer.HostName)]
    ELSE IF ReadResponse(env).StatusCode # 200
    THEN [c |-> connection, e |-> Err("invalid status code", peer.HostName)]
    ELSE [c |-> Wrap(connection, "body"), e |-> NoErr]

\* The two generations of the dialer differ only in their doHTTPConnect.
Impls == {"readLine", "ReadResponse"}

ConnectVia(impl, connection, peer, activePeer, env) ==
    IF impl = "readLine"
    THEN doHTTPConnectReadLine(connection, peer, activePeer, env)
    ELSE doHTTPConnect(connection, peer, activePeer, env)

\* ------------------------------------------------------- the chain dialer

\* net.Dial("tcp", host:port): a new socket, or the nil connection and an
\* error.
NetDial(peer, ok, sock) ==
    IF ok THEN [c |-> RawConn(sock), e |-> NoErr]
    ELSE [c |-> NilConn, e |-> Err("dial tcp", peer.HostName)]

\* One run of the dial loop: i is the loop index (0-based as in the source),
\* pc the place in the loop body ("reach": about to dial or CONNECT to
\* peers[i]; "tls": about to handshake with it; "done": returned),
\* connection and err the loop's variables (the returned pair once done).
\* events lists the dial, the CONNECT requests and the handshakes in the
\* order they were made, and reply keeps the last CONNECT exchange.
DialStart(impl, peers) ==
    [impl |-> impl, peers |-> peers, i |-> 0, pc |-> "reach",
     connection |-> NilConn, err |-> NoErr, events |-> <<>>, reply |-> NoReply]

\* if err != nil { return connection, err }
ReachFailedAlways(r) == FALSE

ReachFailed(r) == r.e # NoErr

\* if peer.TLSConfig != nil
NeedsHandshakeAlways(peer) == TRUE

NeedsHandshake(peer) == peer.TLS

\* The first statement of the loop body for peers[i]: net.Dial for the
\* first peer, doHTTPConnect over the connection so far for the others.
ReachPeer(d, tcpOk, env, sock) ==
    LET peer == d.peers[d.i + 1]
        r == IF d.i = 0 THEN NetDial(peer, tcpOk, sock)
             ELSE ConnectVia(d.impl, d.connection, peer, d.peers[d.i], env)
        ev == IF d.i = 0 THEN <<"dial", 0>> ELSE <<"CONNECT", d.i>>
    IN  [d EXCEPT !.connection = r.c,
                  !.err = r.e,
                  !.events = Append(@, ev),
                  !.reply = IF d.i = 0 THEN NoReply ELSE env,
                  !.pc = IF ReachFailed(r) THEN "done" ELSE "tls"]

\* The end of the loop body: the next peer, or return connection, nil.
NextPeer(d) ==
    IF d.i + 1 = Len(d.peers) THEN [d EXCEPT !.pc = "done"]
    ELSE [d EXCEPT !.i = @ + 1, !.pc = "reach"]

\* The second statement of the loop body: the TLS client handshake when the
\* peer has a TLS configuration. A failed handshake returns the connection
\* from before the wrapping.
HandshakePeer(d, hsOk) ==
    LET peer == d.peers[d.i + 1]
    IN  IF NeedsHandshake(peer)
        THEN LET e == [d EXCEPT !.events = Append(@, <<"TLS", d.i>>)]
             IN  IF hsOk
                 THEN NextPeer([e EXCEPT !.connection = Wrap(@, "tls")])
                 ELSE [e EXCEPT !.err = Err("handshake failed", peer.HostName),
                                !.pc = "done"]
        ELSE NextPeer(d)

\* ------------------------------------------------------------------ state

VARIABLES
    dial,           \* SpecDial: the dial under way
    fp,             \* SpecFingerprint: two chains and their pool keys
    tcpConnections, \* the pool's map: key -> channel (0: no entry)
    tasks,          \* tasks[k]: the background goroutine sending on channel k
    handlers,       \* handlers[h]: the goroutine serving client connection h
    socks,          \* the sockets opened by net.Dial
    crashed,        \* the process died of a panic or a fatal error
    hijack,         \* SpecHijack: one run of hijackTLSRequest
    relay,          \* SpecRelay: the two copyAndClose goroutines of a relay
    plain,          \* SpecPlain: one run of handleRequest (plain listener)
    req,            \* SpecRequest: a CONNECT request as it is written
    rd,             \* SpecReadLine: a CONNECT response as it is read
    bridge,         \* SpecBridge: one run of handleRequest (Configuration)
    serve           \* SpecServe: one CONNECT request in the HTTP handler

vars == <<dial, fp, tcpConnections, tasks, handlers, socks, crashed,
          hijack, relay, plain, req, rd, bridge, serve>>

poolVars == <<tcpConnections, tasks, handlers, socks, crashed>>

sideVars == <<hijack, relay, plain, req, rd, bridge, serve>>

\* The variables of the specifications that are not running.
SideIdle ==
    /\ hijack = <<>>
    /\ relay = <<>>
    /\ plain = <<>>
    /\ req = <<>>
    /\ rd = <<>>
    /\ bridge = <<>>
    /\ serve = <<>>

\* -------------------------------------------------------------- the pool

\* The key DialProxy builds: "%s:%d/" of every peer's host name and port.
RECURSIVE PeersAsString(_)
PeersAsString(peers) ==
    IF Len(peers) = 0 THEN <<>>
    ELSE PeersAsString(SubSeq(peers, 1, Len(peers) - 1))
         \o peers[Len(peers)].HostName \o <<":">>
         \o FormatInt(peers[Len(peers)].Port) \o <<"/">>

\* The chain of the README's example: a plain proxy on port 3128, then a
\* proxy on port 443 that is spoken to over TLS.
ReadmeChain ==
    << Peer(HostA, 3128, FALSE, NoExtra), Peer(HostB, 443, TRUE, NoExtra) >>

\* The chains the listeners of the process are configured with.
PoolChains == { ReadmeChain }

\* Chains of further listeners: one to another proxy, and one over the same
\* hosts and ports as the README's with another TLS configuration and other
\* extra headers.
OtherChain == << Peer(HostB, 3128, FALSE, NoExtra) >>

SameHostsChain ==
    << Peer(HostA, 3128, FALSE, AuthExtra), Peer(HostB, 443, FALSE, NoExtra) >>

MixedChains == { ReadmeChain, OtherChain, SameHostsChain }

PoolKeys == { PeersAsString(c) : c \in PoolChains \cup MixedChains }

\* type connResult
ConnResult(c, e) == [c |-> c, e |-> e]

NoResult == ConnResult(NilConn, NoErr)

\* The dial record of a specification that dials nothing.
NoDial == DialStart("ReadResponse", <<>>)

\* The answers to the hijacker's CONNECT to the server name: accepted or not.
PoolConnectEnvs ==
    { ConnectEnv("ok", "ok", HTTP11 \o <<" ", "2", "0", "0", " ", "O", "K">>, "ok"),
      ConnectEnv("ok", "ok", HTTP11 \o <<" ", "4", "0", "4", " ", "N", "o">>, "ok") }

\* The answer of a proxy that accepts the CONNECT of a background dial.
ConnectAccepted ==
    ConnectEnv("ok", "ok", HTTP11 \o <<" ", "2", "0", "0", " ", "O", "K">>, "ok")

\* What the peers do during one background dial of a chain of n peers: for
\* every hop whether the TCP dial succeeds (first hop) and whether the
\* handshake succeeds; the CONNECT of a later hop is accepted.
RECURSIVE DialScripts(_)
DialScripts(n) ==
    IF n = 1
    THEN { << [tcpOk |-> t, env |-> NoReply, hsOk |-> hs] >> : t, hs \in BOOLEAN }
    ELSE { Append(f, [tcpOk |-> TRUE, env |-> ConnectAccepted, hsOk |-> hs]) :
             f \in DialScripts(n - 1), hs \in BOOLEAN }

\* DialProxyInternal(peers) run to its return: the loop of ReachPeer and
\* HandshakePeer against the peers' behaviour.
RECURSIVE RunDial(_, _, _)
RunDial(d, script, sock) ==
    IF d.pc = "done" THEN d
    ELSE IF d.pc = "reach"
    THEN RunDial(ReachPeer(d, script[d.i + 1].tcpOk, script[d.i + 1].env, sock),
                 script, sock)
    ELSE RunDial(HandshakePeer(d, script[d.i + 1].hsOk), script, sock)

DialProxyInternal(peers, script, sock) ==
    RunDial(DialStart("ReadResponse", peers), script, sock)

\* The pairs (conn, err) DialProxyInternal can return for each configured
\* chain, with 1 standing for the socket net.Dial opens.
DialOutcomes ==
    [c \in PoolChains \cup MixedChains |->
        { LET d == DialProxyInternal(c, script, 1)
          IN  ConnResult(d.connection, d.err) : script \in DialScripts(Len(c)) }]

\* The connection c of such a pair when the socket opened is s.
OnSock(c, s) == IF c = NilConn THEN c ELSE [c EXCEPT !.sock = s]

\* The goroutine DialProxy starts for a new channel: it dials the chain (pc
\* "dial") and then blocks sending the result on its channel (pc "send",
\* res the value offered). by is the handler whose DialProxy call started
\* it, peers and peersAsString the variables its closure captured.
NewTask(peers, peersAsString, by) ==
    [peers |-> peers, peersAsString |-> peersAsString, by |-> by,
     pc |-> "dial", res |-> NoResult]

\* The task once its value has been received: the channel is unbuffered, the
\* value goes to that one receiver and the loop dials again.
TaskAfterSendKeepsValue(t) == t

TaskAfterSend(t) == [t EXCEPT !.pc = "dial", !.res = NoResult]

\* _, err := res.c.Read(make([]byte, 0, 0)): whether the probe of a pooled
\* connection returns an error. The read asks for no bytes, so whether it
\* touches the socket at all is up to the Read of the connection's type: on
\* a connection its peer has closed it may report the close or report
\* nothing; on an open connection it reports nothing.
ProbeErrs(c) == IF socks[c.sock] = "peerClosed" THEN BOOLEAN ELSE {FALSE}

\* ------------------------------------------------------------ the hijacker

\* What vhost.TLS(client) and tlsClientConn.Host() give: a parse error, no
\* server name, or the server name of the ClientHello.
SniResults ==
    { [err |-> TRUE, host |-> <<>>],
      [err |-> FALSE, host |-> <<>>],
      [err |-> FALSE, host |-> <<"s">>] }

NoSni == [err |-> FALSE, host |-> <<"?">>]

\* err != nil, or tlsClientConn.Host() == ""
SNIMissingOnlyOnError(sni) == sni.err

SNIMissing(sni) == sni.err \/ sni.host = <<>>

\* The goroutine hijackTLSRequest(client, peers) of one accepted connection.
\* pc: "accepted" (before vhost.TLS), "register", "recv" (inside DialProxy:
\* before the registration of a new channel, before the channel receive),
\* and the ends "rejected" (no SNI), "failed", "relaying" and "panic". chn
\* is DialProxy's channel, res the result its last round received (gone
\* when the loop continues) and ret what DialProxy returned. dialCalls,
\* connects and relays count the DialProxy calls, the CONNECT requests to
\* the server name and the relays started; peersAsString is DialProxy's key.
NewHandler(peers) ==
    [peers |-> peers, pc |-> "accepted", sni |-> NoSni, client |-> "open",
     peersAsString |-> <<>>, chn |-> 0, res |-> NoResult, ret |-> NoResult,
     dialCalls |-> 0, connects |-> 0, relays |-> 0]

\* The pool and the handlers of a process that serves nothing.
PoolIdle ==
    /\ tcpConnections = [k \in PoolKeys |-> 0]
    /\ tasks = <<>>
    /\ handlers = <<>>
    /\ socks = [s \in 1..MaxSocks |-> "free"]
    /\ crashed = FALSE

\* ------------------------------------------- SpecDial: one dial of a chain

DialPeers == PeersOver({HostA, HostB}, {3128}, {NoExtra, AuthExtra})

DialInit ==
    /\ \E impl \in Impls, peers \in ChainsOver(DialPeers, MaxChainLen) :
          dial = DialStart(impl, peers)
    /\ fp = <<>>
    /\ PoolIdle
    /\ SideIdle

\* The dialer reaches the next peer: the environment decides whether the
\* TCP dial succeeds or how the CONNECT exchange goes.
DialReach ==
    /\ dial.pc = "reach"
    /\ \/ /\ dial.i = 0
          /\ \E tcpOk \in BOOLEAN : dial' = ReachPeer(dial, tcpOk, NoReply, 1)
       \/ /\ dial.i > 0
          /\ \E env \in ConnectEnvs : dial' = ReachPeer(dial, TRUE, env, 1)
    /\ UNCHANGED <<sideVars, fp, poolVars>>

\* The dialer handshakes with the peer it reached (or skips that) and goes
\* on to the next peer or returns.
DialHandshake ==
    /\ dial.pc = "tls"
    /\ \E hsOk \in BOOLEAN : dial' = HandshakePeer(dial, hsOk)
    /\ UNCHANGED <<sideVars, fp, poolVars>>

DialNext == DialReach \/ DialHandshake

SpecDial == DialInit /\ [][DialNext]_vars

\* ------------------------ Spec: hijack listeners over the connection pool

Handlers == 1..NumClients

Init ==
    /\ dial = NoDial
    /\ fp = <<>>
    /\ tcpConnections = [k \in PoolKeys |-> 0]
    /\ tasks = <<>>
    /\ handlers \in [Handlers -> { NewHandler(c) : c \in PoolChains }]
    /\ socks = [s \in 1..MaxSocks |-> "free"]
    /\ crashed = FALSE
    /\ SideIdle

\* hijackTLSRequest up to the map lookup of DialProxy. Without a server
\* name the handler returns and its deferred function closes the client.
\* With one it calls DialProxy, which builds its key and looks it up:
\* chn, ok := tcpConnections[peersAsString].
HijackParse(h) ==
    /\ ~crashed
    /\ handlers[h].pc = "accepted"
    /\ \E sni \in SniResults :
          LET key == PeersAsString(handlers[h].peers)
              chn == tcpConnections[key]
          IN  handlers' = [handlers EXCEPT ![h] =
                  IF SNIMissing(sni)
                  THEN [@ EXCEPT !.sni = sni, !.client = "closed", !.pc = "rejected"]
                  ELSE [@ EXCEPT !.sni = sni, !.dialCalls = @ + 1,
                                 !.peersAsString = key, !.chn = chn,
                                 !.pc = IF chn # 0 THEN "recv" ELSE "register"]]
    /\ UNCHANGED <<sideVars, dial, fp, tcpConnections, tasks, socks, crashed>>

\* DialProxy, if !ok: a new channel is made, stored in the map under the key
\* and given a goroutine that dials the caller's peers forever.
DialProxyRegister(h) ==
    /\ ~crashed
    /\ handlers[h].pc = "register"
    /\ LET chn == Len(tasks) + 1
       IN  /\ tasks' = Append(tasks, NewTask(handlers[h].peers,
                                               handlers[h].peersAsString, h))
           /\ tcpConnections' =
                 [tcpConnections EXCEPT ![handlers[h].peersAsString] = chn]
           /\ handlers' = [handlers EXCEPT ![h] = [@ EXCEPT !.chn = chn, !.pc = "recv"]]
    /\ UNCHANGED <<sideVars, dial, fp, socks, crashed>>

\* The map is written without a lock: two goroutines that are both about to
\* write it race, and the runtime may end the process ("concurrent map
\* writes").
MapRaceFatal ==
    /\ ~crashed
    /\ \E h1, h2 \in Handlers :
          /\ h1 # h2
          /\ handlers[h1].pc = "register"
          /\ handlers[h2].pc = "register"
    /\ crashed' = TRUE
    /\ UNCHANGED <<sideVars, dial, fp, tcpConnections, tasks, handlers, socks>>

\* What DialProxy returns for a received result that passed the probe.
DialProxyReturn(res) ==
    IF res.e # NoErr THEN ConnResult(NilConn, res.e) ELSE ConnResult(res.c, NoErr)

\* hijackTLSRequest after DialProxy has returned ret. On an error the
\* handler returns and its deferred function closes the client. Otherwise
\* it sends the CONNECT to the server name on port 443 over the pooled
\* connection, as the last peer of the chain would; when that fails the
\* client is closed, when it succeeds the two relay goroutines start.
HijackConnect(me, ret, env) ==
    LET r == doHTTPConnect(ret.c, Peer(me.sni.host, 443, FALSE, NoExtra),
                           me.peers[Len(me.peers)], env)
    IN  IF ret.e # NoErr
        THEN [me EXCEPT !.ret = ret, !.client = "closed", !.pc = "failed"]
        ELSE IF r.e # NoErr
        THEN [me EXCEPT !.ret = ret, !.connects = @ + 1, !.client = "closed",
                        !.pc = "failed"]
        ELSE [me EXCEPT !.ret = ret, !.connects = @ + 1, !.relays = @ + 1,
                        !.pc = "relaying"]

\* res := <-chn can proceed: the task of channel k is blocked in its send.
ChannelReadyInTurn(k) ==
    /\ tasks[k].pc = "send"
    /\ \A j \in 1..(k - 1) : tasks[j].pc # "send"

ChannelReady(k) == tasks[k].pc = "send"

\* DialProxy's receive loop, one round: res := <-chn, the probe of res.c (a
\* nil res.c panics: the handler's deferred function still closes the
\* client, then the process dies), then discard and receive again, or
\* return to hijackTLSRequest, which runs to its end.
DialProxyReceive(h) ==
    /\ ~crashed
    /\ handlers[h].pc = "recv"
    /\ LET k == handlers[h].chn
           res == tasks[k].res
           got == [handlers[h] EXCEPT !.res = res]
       IN  /\ ChannelReady(k)
           /\ tasks' = [tasks EXCEPT ![k] = TaskAfterSend(@)]
           /\ IF res.c = NilConn
              THEN /\ handlers' = [handlers EXCEPT ![h] = [got EXCEPT !.pc = "panic",
                                                      !.client = "closed"]]
                   /\ crashed' = TRUE
              ELSE /\ crashed' = crashed
                   /\ \E probeErr \in ProbeErrs(res.c), env \in PoolConnectEnvs :
                         handlers' = [handlers EXCEPT ![h] =
                            IF probeErr THEN [got EXCEPT !.res = NoResult]
                            ELSE HijackConnect(got, DialProxyReturn(res), env)]
    /\ UNCHANGED <<sideVars, dial, fp, tcpConnections, socks>>

FreeSocks == { s \in 1..MaxSocks : socks[s] = "free" }

\* One round of a background task up to its send: conn, err :=
\* DialProxyInternal(peers), with a new socket when the TCP dial succeeds.
TaskDial(k) ==
    /\ ~crashed
    /\ tasks[k].pc = "dial"
    /\ FreeSocks # {}
    /\ LET s == CHOOSE x \in FreeSocks : \A y \in FreeSocks : x <= y
       IN  \E r \in DialOutcomes[tasks[k].peers] :
             /\ tasks' = [tasks EXCEPT ![k] =
                   [@ EXCEPT !.pc = "send", !.res = ConnResult(OnSock(r.c, s), r.e)]]
             /\ socks' = IF r.c # NilConn THEN [socks EXCEPT ![s] = "open"]
                         ELSE socks
    /\ UNCHANGED <<sideVars, dial, fp, tcpConnections, handlers, crashed>>

\* The peer closes a connection that waits in the pool, offered by a task
\* but not yet received.
PeerCloses(s) ==
    /\ ~crashed
    /\ socks[s] = "open"
    /\ \E k \in 1..Len(tasks) : tasks[k].pc = "send" /\ tasks[k].res.c.sock = s
    /\ socks' = [socks EXCEPT ![s] = "peerClosed"]
    /\ UNCHANGED <<sideVars, dial, fp, tcpConnections, tasks, handlers, crashed>>

Next ==
    \/ \E h \in Handlers : HijackParse(h)
    \/ \E h \in Handlers : DialProxyRegister(h)
    \/ MapRaceFatal
    \/ \E h \in Handlers : DialProxyReceive(h)
    \/ \E k \in 1..Len(tasks) : TaskDial(k)
    \/ \E s \in 1..MaxSocks : PeerCloses(s)

Spec == Init /\ [][Next]_vars

\* The goroutines are scheduled fairly: a handler that can take its next
\* step takes it, and a background task that can dial does so and returns
\* from the dial.
SpecFair ==
    /\ Init
    /\ [][Next]_vars
    /\ \A h \in Handlers :
          WF_vars(HijackParse(h) \/ DialProxyRegister(h) \/ DialProxyReceive(h))
    /\ \A k \in Handlers : WF_vars(k <= Len(tasks) /\ TaskDial(k))

\* The same process with a second listener configured with another chain:
\* the first client arrives at that listener, the others at the README's.
MixedInit ==
    /\ dial = NoDial
    /\ fp = <<>>
    /\ tcpConnections = [k \in PoolKeys |-> 0]
    /\ tasks = <<>>
    /\ \E other \in MixedChains \ PoolChains :
          handlers = [h \in Handlers |->
                        NewHandler(IF h = 1 THEN other ELSE ReadmeChain)]
    /\ socks = [s \in 1..MaxSocks |-> "free"]
    /\ crashed = FALSE
    /\ SideIdle

SpecMixed == MixedInit /\ [][Next]_vars


\* ----------------------- SpecFingerprint: the pool keys of two chains

FingerprintPeers ==
    { Peer(HostA, 3128, FALSE, NoExtra),
      Peer(HostA, 3128, TRUE, NoExtra),
      Peer(HostA, 3128, FALSE, AuthExtra),
      Peer(HostA, 8080, FALSE, NoExtra),
      Peer(HostB, 3128, FALSE, NoExtra) }

FingerprintInit ==
    /\ \E a, b \in ChainsOver(FingerprintPeers, MaxChainLen) :
          fp = [a |-> a, b |-> b, keyA |-> <<>>, keyB |-> <<>>, computed |-> FALSE]
    /\ dial = NoDial
    /\ PoolIdle
    /\ SideIdle

\* DialProxy builds the key of each of the two chains.
FingerprintCompute ==
    /\ ~fp.computed
    /\ fp' = [fp EXCEPT !.keyA = PeersAsString(fp.a),
                        !.keyB = PeersAsString(fp.b),
                        !.computed = TRUE]
    /\ UNCHANGED <<sideVars, dial, poolVars>>

FingerprintNext == FingerprintCompute

SpecFingerprint == FingerprintInit /\ [][FingerprintNext]_vars


\* ------------------------------------------- the CONNECT request as written

CRLF == <<"\r", "\n">>

\* fmt.Sprintf("%s:%d", peer.HostName, peer.Port)
HostPort(peer) == peer.HostName \o <<":">> \o FormatInt(peer.Port)

\* Two extra headers, and the order sort.Strings gives their names.
TwoExtra == { <<"Proxy-Authorization", "x">>, <<"X-Via", "y">> }

SortedNames == <<"Proxy-Authorization", "X-Via">>

\* All orders in which the entries of a map can be ranged over.
Orders(extra) ==
    { o \in [1..Cardinality(extra) -> extra] :
        \A i, j \in 1..Cardinality(extra) : i # j => o[i] # o[j] }

\* fmt.Fprintf(connection, "%s: %s\r\n", k, v) for the entries in order o.
RECURSIVE HeaderLines(_)
HeaderLines(o) ==
    IF Len(o) = 0 THEN <<>>
    ELSE <<o[1][1], ": ", o[1][2]>> \o CRLF \o HeaderLines(Tail(o))

\* What doHTTPConnect of the readLine generation writes: the CONNECT line,
\* the extra headers of activePeer in the order the map range yields them,
\* the empty line.
ConnectRequestsReadLine(peer, activePeer) ==
    { <<"CONNECT", " ">> \o HostPort(peer) \o <<" ", "HTTP/1.0">> \o CRLF
        \o HeaderLines(o) \o CRLF : o \in Orders(activePeer.ConnectExtra) }

\* The entries of extra in the order of their names, as
\* Header.WriteSubset writes them.
SortedOrder(extra) ==
    CHOOSE o \in Orders(extra) :
        \A i, j \in 1..Len(o) :
            i < j => \E a, b \in 1..Len(SortedNames) :
                        a < b /\ SortedNames[a] = o[i][1] /\ SortedNames[b] = o[j][1]

\* What req.Write(connection) writes for http.Request{Method: "CONNECT",
\* URL: &url.URL{Path: host:port}, Header: activePeer.ConnectExtra}: the
\* request line with the path as request URI and HTTP/1.1, a Host line (the
\* request has no Host and its URL no host, so it is empty), the default
\* User-Agent line, the extra headers sorted by name, the empty line.
RequestWrite(peer, activePeer) ==
    <<"CONNECT", " ">> \o HostPort(peer) \o <<" ", "HTTP/1.1">> \o CRLF
        \o <<"Host", ": ">> \o CRLF
        \o <<"User-Agent", ": ", "Go-http-client/1.1">> \o CRLF
        \o HeaderLines(SortedOrder(activePeer.ConnectExtra)) \o CRLF

\* The requests the dialer of a generation may write to reach peer through
\* activePeer.
ConnectRequests(impl, peer, activePeer) ==
    IF impl = "readLine" THEN ConnectRequestsReadLine(peer, activePeer)
    ELSE { RequestWrite(peer, activePeer) }

\* ------------------------------- SpecHijack: one run of hijackTLSRequest

\* The behaviours of the peers during one chain dial of n peers, the CONNECT
\* exchanges drawn from envs.
RECURSIVE DialScriptsOver(_, _)
DialScriptsOver(n, envs) ==
    IF n = 1
    THEN { << [tcpOk |-> t, env |-> NoReply, hsOk |-> hs] >> : t, hs \in BOOLEAN }
    ELSE { Append(f, [tcpOk |-> TRUE, env |-> env, hsOk |-> hs]) :
             f \in DialScriptsOver(n - 1, envs), env \in envs, hs \in BOOLEAN }

HijackPeers ==
    { Peer(HostA, 3128, FALSE, NoExtra), Peer(HostB, 443, TRUE, AuthExtra) }

\* The local ports ListenTLS may listen on.
ListenPorts == { 443, 8443 }

\* hijackTLSRequest(client, peers) of a connection accepted on port laddr.
\* pc: "accepted", "parsed" (server name known, before DialProxy), "dialed"
\* (DialProxy returned a connection, before the final doHTTPConnect),
\* "connected" (before client = nil and the go statements), "relaying", and
\* the ends "rejected", "failed" and "panic". clientVar tells whether the
\* variable client still holds the connection, client is the state of that
\* connection, proxy and err are the function's variables. events lists the
\* dial, the CONNECT requests and the handshakes made for this connection,
\* request is the last CONNECT request the function wrote, relays the
\* number of relay goroutines started, toClient the number of bytes written
\* to the client, tunnel the state of the socket the chain dial opened
\* ("none" before it has opened one), and trace the values pc has had.
HijackStart(peers, laddr) ==
    [peers |-> peers, laddr |-> laddr, pc |-> "accepted", sni |-> NoSni,
     client |-> "open", clientVar |-> TRUE, proxy |-> NilConn, err |-> NoErr,
     events |-> <<>>, request |-> <<>>, relays |-> 0, toClient |-> 0,
     tunnel |-> "none", trace |-> <<"accepted">>]

\* The deferred function: if client != nil { client.Close() }
HijackDeferredCloseNever(h) == h

HijackDeferredClose(h) ==
    IF h.clientVar THEN [h EXCEPT !.client = "closed"] ELSE h

\* if err != nil, after DialProxy and after the final doHTTPConnect
HijackFailedNever(e) == FALSE

HijackFailed(e) == e # NoErr

\* The function leaves with pc at to: the deferred function runs.
HijackLeave(h, to) ==
    HijackDeferredClose([h EXCEPT !.pc = to, !.trace = Append(@, to)])

HijackGo(h, to) == [h EXCEPT !.pc = to, !.trace = Append(@, to)]

HijackInit ==
    /\ \E peers \in ChainsOver(HijackPeers, MaxChainLen), laddr \in ListenPorts :
          hijack = HijackStart(peers, laddr)
    /\ relay = <<>>
    /\ plain = <<>>
    /\ req = <<>>
    /\ rd = <<>>
    /\ bridge = <<>>
    /\ serve = <<>>
    /\ dial = NoDial
    /\ fp = <<>>
    /\ PoolIdle

\* tlsClientConn, err := vhost.TLS(client) and the two tests that follow.
HjParse ==
    /\ hijack.pc = "accepted"
    /\ \E sni \in SniResults :
          hijack' = IF SNIMissing(sni)
                    THEN HijackLeave([hijack EXCEPT !.sni = sni], "rejected")
                    ELSE HijackGo([hijack EXCEPT !.sni = sni], "parsed")
    /\ UNCHANGED <<relay, plain, req, rd, bridge, serve, dial, fp, poolVars>>

\* proxy, err := DialProxy(peers): the result of one background dial of the
\* chain comes out of the pool. A result without connection panics in
\* DialProxy; the deferred function runs before the process dies.
HjDial ==
    /\ hijack.pc = "parsed"
    /\ \E script \in DialScriptsOver(Len(hijack.peers), PoolConnectEnvs) :
          LET d == DialProxyInternal(hijack.peers, script, 1)
              res == ConnResult(d.connection, d.err)
              ret == DialProxyReturn(res)
              h == [hijack EXCEPT !.events = d.events, !.proxy = ret.c,
                                  !.err = ret.e,
                                  !.tunnel = IF res.c # NilConn THEN "open" ELSE @]
          IN  hijack' = IF res.c = NilConn
                        THEN HijackLeave([hijack EXCEPT !.events = d.events],
                                         "panic")
                        ELSE IF HijackFailed(ret.e) THEN HijackLeave(h, "failed")
                        ELSE HijackGo(h, "dialed")
    /\ UNCHANGED <<relay, plain, req, rd, bridge, serve, dial, fp, poolVars>>

\* Peer{HostName: tlsClientConn.Host(), Port: 443}
HijackTargetOnListenPort(h) == Peer(h.sni.host, h.laddr, FALSE, NoExtra)

HijackTarget(h) == Peer(h.sni.host, 443, FALSE, NoExtra)

\* proxy, err = doHTTPConnect(proxy, Peer{HostName: tlsClientConn.Host(),
\* Port: 443}, peers[len(peers)-1])
HjConnect ==
    /\ hijack.pc = "dialed"
    /\ \E env \in PoolConnectEnvs :
          LET target == HijackTarget(hijack)
              last == hijack.peers[Len(hijack.peers)]
              r == doHTTPConnect(hijack.proxy, target, last, env)
              h == [hijack EXCEPT
                      !.events = Append(@, <<"CONNECT", Len(hijack.peers)>>),
                      !.request = RequestWrite(target, last),
                      !.proxy = r.c, !.err = r.e]
          IN  hijack' = IF HijackFailed(r.e) THEN HijackLeave(h, "failed")
                        ELSE HijackGo(h, "connected")
    /\ UNCHANGED <<relay, plain, req, rd, bridge, serve, dial, fp, poolVars>>

\* client = nil; go copyAndClose(tlsClientConn, proxy); go copyAndClose(proxy,
\* tlsClientConn); the function returns and the deferred function runs.
HjStartRelay ==
    /\ hijack.pc = "connected"
    /\ hijack' = HijackLeave([hijack EXCEPT !.clientVar = FALSE, !.relays = 2],
                             "relaying")
    /\ UNCHANGED <<relay, plain, req, rd, bridge, serve, dial, fp, poolVars>>

\* copyAndClose(tlsClientConn, proxy) writes a byte it read from proxy to
\* the client.
HjRelayToClient ==
    /\ hijack.pc = "relaying"
    /\ hijack.client = "open"
    /\ hijack.toClient < MaxBytes
    /\ hijack' = [hijack EXCEPT !.toClient = @ + 1]
    /\ UNCHANGED <<relay, plain, req, rd, bridge, serve, dial, fp, poolVars>>

HijackNext == HjParse \/ HjDial \/ HjConnect \/ HjStartRelay \/ HjRelayToClient

SpecHijack == HijackInit /\ [][HijackNext]_vars

\* --------------------------------- SpecRelay: the two copyAndClose goroutines

\* An endpoint of a relay. kind: "socket" (a connection whose Close closes
\* the socket: a TCP connection, the client connection vhost.TLS returns, a
\* tls.Conn over a socket) or "wrapped" (httpConnectResponseConn or a
\* tls.Conn over one: Close closes the response body, not the connection).
\* sock is the state of the socket on this side, bodyClosed whether the
\* response body of a wrapped connection was closed, closes the number of
\* Close calls. The remote side has sent the first sent bytes of its stream
\* and has shut down its sending side when eof; inq are the bytes sent and
\* not yet read, got the bytes read so far, out the bytes written so far.
Endpoint(kind) ==
    [kind |-> kind, sock |-> "open", bodyClosed |-> FALSE, closes |-> 0,
     sent |-> 0, eof |-> FALSE, inq |-> <<>>, got |-> <<>>, out |-> <<>>]

\* The k-th byte the remote side of endpoint e sends.
StreamByte(e, k) == IF e = "a" THEN k ELSE 10 + k

\* copyAndClose(dst, src): pc is "read" (io.Copy about to call src.Read),
\* "inRead" (inside src.Read), "write" (about to write buf to dst),
\* "closeSrc", "closeDst", "done". ended tells that the copy has seen EOF or
\* an error.
Copier(dst, src) ==
    [dst |-> dst, src |-> src, pc |-> "read", buf |-> <<>>, ended |-> FALSE]

\* The copiers: go copyAndClose(a, b); go copyAndClose(b, a)
Copiers == {"toA", "toB"}

RelayStart(kindB) ==
    [ends |-> [e \in {"a", "b"} |->
                  IF e = "a" THEN Endpoint("socket") ELSE Endpoint(kindB)],
     g |-> [c \in Copiers |->
               IF c = "toA" THEN Copier("a", "b") ELSE Copier("b", "a")]]

\* conn.Close(): of a socket, or of httpConnectResponseConn, which closes
\* the body, not the connection.
CloseConn(e) ==
    IF e.kind = "wrapped"
    THEN [e EXCEPT !.closes = @ + 1, !.bodyClosed = TRUE]
    ELSE [e EXCEPT !.closes = @ + 1, !.sock = "closed"]

\* dst.Write(buf[0:nr]) delivers what was read, in order.
DeliverTwice(out, buf) == out \o buf \o buf

Deliver(out, buf) == out \o buf

RelayInit ==
    /\ \E kindB \in {"socket", "wrapped"} : relay = RelayStart(kindB)
    /\ hijack = <<>>
    /\ plain = <<>>
    /\ req = <<>>
    /\ rd = <<>>
    /\ bridge = <<>>
    /\ serve = <<>>
    /\ dial = NoDial
    /\ fp = <<>>
    /\ PoolIdle

RelayFrame == UNCHANGED <<hijack, plain, req, rd, bridge, serve, dial, fp,
                             poolVars>>

\* The copy ends: io.Copy returns and the two Close calls follow.
CopyEnds(g) == [g EXCEPT !.pc = "closeSrc", !.buf = <<>>, !.ended = TRUE]

\* io.Copy calls src.Read: an error at once when the socket or the body was
\* closed on this side, otherwise the call is under way.
RelayCallRead(c) ==
    LET g == relay.g[c]
        src == relay.ends[g.src]
    IN  /\ g.pc = "read"
        /\ relay' = [relay EXCEPT !.g[c] =
              IF src.sock = "closed" \/ src.bodyClosed THEN CopyEnds(g)
              ELSE [g EXCEPT !.pc = "inRead"]]
        /\ RelayFrame

\* src.Read returns: an error when the socket was closed on this side (which
\* wakes a blocked Read), some of the bytes that have arrived, or EOF when
\* the remote side has shut down and nothing is left. Otherwise it blocks.
RelayReadReturns(c) ==
    LET g == relay.g[c]
        src == relay.ends[g.src]
    IN  /\ g.pc = "inRead"
        /\ \/ /\ src.sock = "closed"
              /\ relay' = [relay EXCEPT !.g[c] = CopyEnds(g)]
           \/ /\ src.sock = "open"
              /\ src.inq # <<>>
              /\ \E n \in 1..Len(src.inq) :
                    relay' = [relay EXCEPT
                        !.g[c] = [g EXCEPT !.pc = "write",
                                           !.buf = SubSeq(src.inq, 1, n)],
                        !.ends[g.src] =
                            [src EXCEPT !.inq = SubSeq(@, n + 1, Len(@)),
                                        !.got = @ \o SubSeq(src.inq, 1, n)]]
           \/ /\ src.sock = "open"
              /\ src.inq = <<>>
              /\ src.eof
              /\ relay' = [relay EXCEPT !.g[c] = CopyEnds(g)]
        /\ RelayFrame

\* dst.Write(buf): an error when the socket was closed on this side;
\* otherwise the bytes are delivered, or, when the remote side is gone, only
\* the first n of them and an error.
RelayWrite(c) ==
    LET g == relay.g[c]
        dst == relay.ends[g.dst]
    IN  /\ g.pc = "write"
        /\ \/ /\ dst.sock = "closed"
              /\ relay' = [relay EXCEPT !.g[c] = CopyEnds(g)]
           \/ /\ dst.sock = "open"
              /\ relay' = [relay EXCEPT
                    !.g[c] = [g EXCEPT !.pc = "read", !.buf = <<>>],
                    !.ends[g.dst] = [dst EXCEPT !.out = Deliver(@, g.buf)]]
           \/ /\ dst.sock = "open"
              /\ dst.eof
              /\ \E n \in 0..(Len(g.buf) - 1) :
                    relay' = [relay EXCEPT
                        !.g[c] = CopyEnds(g),
                        !.ends[g.dst] =
                            [dst EXCEPT !.out = Deliver(@, SubSeq(g.buf, 1, n))]]
        /\ RelayFrame

\* src.Close()
RelayCloseSrc(c) ==
    LET g == relay.g[c]
    IN  /\ g.pc = "closeSrc"
        /\ relay' = [relay EXCEPT !.g[c] = [g EXCEPT !.pc = "closeDst"],
                                  !.ends[g.src] = CloseConn(@)]
        /\ RelayFrame

\* dst.Close()
RelayCloseDst(c) ==
    LET g == relay.g[c]
    IN  /\ g.pc = "closeDst"
        /\ relay' = [relay EXCEPT !.g[c] = [g EXCEPT !.pc = "done"],
                                  !.ends[g.dst] = CloseConn(@)]
        /\ RelayFrame

\* The remote side of endpoint e sends the next byte of its stream.
RemoteSends(e) ==
    LET end == relay.ends[e]
    IN  /\ end.sock = "open"
        /\ ~end.eof
        /\ end.sent < MaxBytes
        /\ relay' = [relay EXCEPT !.ends[e] =
              [end EXCEPT !.sent = @ + 1,
                          !.inq = Append(@, StreamByte(e, end.sent + 1))]]
        /\ RelayFrame

\* The remote side of endpoint e shuts down: EOF after what it has sent.
RemoteCloses(e) ==
    LET end == relay.ends[e]
    IN  /\ end.sock = "open"
        /\ ~end.eof
        /\ relay' = [relay EXCEPT !.ends[e] = [end EXCEPT !.eof = TRUE]]
        /\ RelayFrame

CopierStep(c) ==
    \/ RelayCallRead(c)
    \/ RelayReadReturns(c)
    \/ RelayWrite(c)
    \/ RelayCloseSrc(c)
    \/ RelayCloseDst(c)

RelayNext ==
    \/ \E c \in Copiers : CopierStep(c)
    \/ \E e \in {"a", "b"} : RemoteSends(e)
    \/ \E e \in {"a", "b"} : RemoteCloses(e)

SpecRelay == RelayInit /\ [][RelayNext]_vars

\* The goroutines are scheduled fairly; nothing is assumed of the remote
\* sides.
SpecRelayFair ==
    RelayInit /\ [][RelayNext]_vars /\ \A c \in Copiers : WF_vars(CopierStep(c))

\* ------------------------------------ SpecPlain: one run of handleRequest

\* err.Error() of the errors DialProxyInternal returns: the message of the
\* failure, then the host name.
KindText(kind) ==
    CASE kind = "dial tcp" ->
    <<"d", "i", "a", "l", " ", "t", "c", "p", " ">>
      [] kind = "connecting" ->
    <<"c", "o", "n", "n", "e", "c", "t", "i", "n", "g", " ", "t", "o", " ">>
      [] kind = "reading response" ->
    <<"r", "e", "a", "d", "i", "n", "g", " ", "r", "e", "s", "p", "o", "n",
      "s", "e", ":", " ", "c", "o", "n", "n", "e", "c", "t", "i", "n", "g",
      " ", "t", "o", " ">>
      [] kind = "invalid status code" ->
    <<"i", "n", "v", "a", "l", "i", "d", " ", "s", "t", "a", "t", "u", "s",
      " ", "c", "o", "d", "e", ":", " ", "c", "o", "n", "n", "e", "c", "t",
      "i", "n", "g", " ", "t", "o", " ">>
      [] kind = "handshake failed" ->
    <<"h", "a", "n", "d", "s", "h", "a", "k", "e", " ", "f", "a", "i", "l",
      "e", "d", " ", "w", "i", "t", "h", " ">>

ErrorText(e) == KindText(e.kind) \o e.host

\* http.StatusText(502)
StatusText502 ==
    <<"B", "a", "d", " ", "G", "a", "t", "e", "w", "a", "y">>

ContentTypePlain ==
    <<"C", "o", "n", "t", "e", "n", "t", "-", "T", "y", "p", "e", ":", " ",
      "t", "e", "x", "t", "/", "p", "l", "a", "i", "n">>

ContentLengthName ==
    <<"C", "o", "n", "t", "e", "n", "t", "-", "L", "e", "n", "g", "t", "h",
      ":", " ">>

\* writeHTTPResponse(w, code, format, printf...), the five Fprintf calls in
\* order; msg is fmt.Sprintf(format, printf...).
ContentLength(msg) == FormatInt(Len(msg))

ResponsePieces(code, msg) ==
    << HTTP10 \o <<" ">> \o FormatInt(code) \o <<" ">> \o StatusText502 \o CRLF,
       ContentTypePlain \o CRLF,
       ContentLengthName \o ContentLength(msg) \o CRLF,
       CRLF,
       msg >>

\* fmt.Sprintf("Error: %s", err.Error())
ErrorMessage(e) ==
    <<"E", "r", "r", "o", "r", ":", " ">>
        \o ErrorText(e)

\* handleRequest(client, peers) of the plain listener. pc: "dial" (before
\* DialProxy), "respond" (writing the error response, piece is the next
\* Fprintf), "close" (before the Close calls), "relay" (before the go
\* statements) and the ends "failed", "relaying" and "panic". remote and err
\* are the function's variables, toClient is what was written to the
\* client, partial the socket a failed dial had opened ("none" when it
\* opened none), relays the number of relay goroutines started.
PlainStart(peers) ==
    [peers |-> peers, pc |-> "dial", client |-> "open", toClient |-> <<>>,
     remote |-> NilConn, err |-> NoErr, partial |-> "none", piece |-> 1,
     relays |-> 0]

PlainInit ==
    /\ \E peers \in ChainsOver(DialPeers, MaxChainLen) : plain = PlainStart(peers)
    /\ hijack = <<>>
    /\ relay = <<>>
    /\ req = <<>>
    /\ rd = <<>>
    /\ bridge = <<>>
    /\ serve = <<>>
    /\ dial = NoDial
    /\ fp = <<>>
    /\ PoolIdle

PlainFrame == UNCHANGED <<hijack, relay, req, rd, bridge, serve, dial, fp,
                             poolVars>>

\* remote, err := DialProxy(peers): the result of one background dial comes
\* out of the pool; a result without connection panics in DialProxy.
PlainDial ==
    /\ plain.pc = "dial"
    /\ \E script \in DialScriptsOver(Len(plain.peers), PoolConnectEnvs) :
          LET d == DialProxyInternal(plain.peers, script, 1)
              res == ConnResult(d.connection, d.err)
              ret == DialProxyReturn(res)
          IN  plain' =
                IF res.c = NilConn THEN [plain EXCEPT !.pc = "panic", !.err = res.e]
                ELSE IF ret.e # NoErr
                THEN [plain EXCEPT !.pc = "respond", !.remote = ret.c,
                                   !.err = ret.e, !.partial = "open"]
                ELSE [plain EXCEPT !.pc = "relay", !.remote = ret.c]
    /\ PlainFrame

\* writeHTTPResponse(client, 502, "Error: %s", err.Error()), one Fprintf.
PlainWrite ==
    /\ plain.pc = "respond"
    /\ LET pieces == ResponsePieces(502, ErrorMessage(plain.err))
       IN  plain' = [plain EXCEPT
                        !.toClient = @ \o pieces[plain.piece],
                        !.piece = @ + 1,
                        !.pc = IF plain.piece = Len(pieces) THEN "close" ELSE @]
    /\ PlainFrame

\* if remote != nil { remote.Close() }; client.Close(); return
PlainClose ==
    /\ plain.pc = "close"
    /\ plain' = [plain EXCEPT
                    !.partial = IF plain.remote # NilConn THEN "closed" ELSE @,
                    !.client = "closed",
                    !.pc = "failed"]
    /\ PlainFrame

\* go copyAndClose(client, remote); go copyAndClose(remote, client)
PlainStartRelay ==
    /\ plain.pc = "relay"
    /\ plain' = [plain EXCEPT !.relays = 2, !.pc = "relaying"]
    /\ PlainFrame

PlainNext == PlainDial \/ PlainWrite \/ PlainClose \/ PlainStartRelay

SpecPlain == PlainInit /\ [][PlainNext]_vars

\* ------------------------- SpecRequest: the CONNECT requests of one dial

RequestPeers == PeersOver({HostA, HostB}, {3128}, {NoExtra, AuthExtra, TwoExtra})

\* One run of the loop of DialProxyInternal as far as it writes: i is the
\* index of the peer the next doHTTPConnect is to reach, written the
\* requests written so far, in order.
RequestInit ==
    /\ \E impl \in Impls, peers \in ChainsOver(RequestPeers, MaxChainLen) :
          req = [impl |-> impl, peers |-> peers, i |-> 2, written |-> <<>>]
    /\ hijack = <<>>
    /\ relay = <<>>
    /\ plain = <<>>
    /\ rd = <<>>
    /\ bridge = <<>>
    /\ serve = <<>>
    /\ dial = NoDial
    /\ fp = <<>>
    /\ PoolIdle

\* connection, err = doHTTPConnect(connection, peer, peers[i-1]), the request
RequestConnect ==
    /\ req.i <= Len(req.peers)
    /\ \E r \in ConnectRequests(req.impl, req.peers[req.i], req.peers[req.i - 1]) :
          req' = [req EXCEPT !.written = Append(@, r), !.i = @ + 1]
    /\ UNCHANGED <<hijack, relay, plain, rd, bridge, serve, dial, fp,
                             poolVars>>

RequestNext == RequestConnect

SpecRequest == RequestInit /\ [][RequestNext]_vars

\* --------------------- SpecReadLine: the response to one CONNECT as read

\* io.LimitReader(connection, 1024) around the read of the status line.
StatusLineLimit == 1024

\* Header blocks a proxy may send after the status line.
ResponseHeaders ==
    { <<>>,
      <<"V", ":", " ", "p">> \o CRLF,
      ContentLengthName \o <<"0">> \o CRLF }

RECURSIVE Payload(_)
Payload(n) == IF n = 0 THEN <<>> ELSE <<"x">> \o Payload(n - 1)

\* What arrives on the connection after the request: the status line, the
\* header block, the empty line, and the first bytes of the tunnel.
ResponseStreams ==
    { line \o CRLF \o hs \o CRLF \o Payload(n) :
        line \in { HTTP10 \o <<" ", "2", "0", "0", " ", "O", "K">>,
                   HTTP11 \o <<" ", "2", "0", "0", " ", "O", "K">>,
                   HTTP11 \o <<" ", "4", "0", "4", " ", "N", "o">> },
        hs \in ResponseHeaders,
        n \in 0..MaxBytes }

\* The end of the header block of a response: the place of the LF of its
\* empty line.
HeaderBlockEnd(stream) == Find(stream, CRLF \o CRLF) + 3

\* The length the response body is given: the value of a Content-Length
\* header, -1 (until the connection ends) without one.
BodyLength(stream) ==
    LET head == SubSeq(stream, 1, HeaderBlockEnd(stream) - 2)
        cl == Find(head, CRLF \o ContentLengthName)
        value == SubSeq(head, cl + 2 + Len(ContentLengthName), Len(head))
    IN  IF cl = 0 THEN -1
        ELSE Atoi(SubSeq(value, 1, Find(value, CRLF) - 1))

\* The exchange after the request is written. pc: "status" (reading the
\* status line), "second" (reading the line after it), "connected"
\* (doHTTPConnect returned without error) and "failed". pos is the number
\* of bytes taken from the connection, next the number of bytes handed to
\* a reader, line the line readLine is reading, consumed the value of pos
\* when doHTTPConnect returned, bodyLeft the bytes the response body may
\* still give (-1: no bound), seen what the reader after doHTTPConnect (the
\* TLS handshake or the caller) has read and eof whether it was told the
\* stream has ended.
ReadStart(impl, stream) ==
    [impl |-> impl, stream |-> stream, pc |-> "status", pos |-> 0,
     next |-> 0, line |-> <<>>, consumed |-> 0, bodyLeft |-> -1,
     seen |-> <<>>, eof |-> FALSE]

ReadInit ==
    /\ \E impl \in Impls, stream \in ResponseStreams : rd = ReadStart(impl, stream)
    /\ hijack = <<>>
    /\ relay = <<>>
    /\ plain = <<>>
    /\ req = <<>>
    /\ bridge = <<>>
    /\ serve = <<>>
    /\ dial = NoDial
    /\ fp = <<>>
    /\ PoolIdle

ReadFrame == UNCHANGED <<hijack, relay, plain, req, bridge, serve, dial, fp,
                             poolVars>>

\* for length < 2 || line[length-2] != '\r' || line[length-1] != '\n'
LineComplete(line) ==
    /\ Len(line) >= 2
    /\ line[Len(line) - 1] = "\r"
    /\ line[Len(line)] = "\n"

\* One turn of the loop of readLine, for the status line (read through the
\* LimitReader) and for the line after it, and what doHTTPConnect does with
\* the line once it is complete.
ReadLineByte ==
    /\ rd.impl = "readLine"
    /\ rd.pc \in {"status", "second"}
    /\ IF rd.pc = "status" /\ Len(rd.line) >= StatusLineLimit
       THEN rd' = [rd EXCEPT !.pc = "failed"]
       ELSE /\ rd.pos < Len(rd.stream)
            /\ LET line == Append(rd.line, rd.stream[rd.pos + 1])
                   got == [rd EXCEPT !.pos = @ + 1, !.next = @ + 1]
               IN  rd' =
                     IF ~LineComplete(line) THEN [got EXCEPT !.line = line]
                     ELSE IF rd.pc = "second"
                     THEN [got EXCEPT !.line = <<>>, !.pc = "connected",
                                      !.consumed = got.pos]
                     ELSE IF ~HasPrefix(line, Prefix10_200)
                             /\ ~HasPrefix(line, Prefix11_200)
                     THEN [got EXCEPT !.line = line, !.pc = "failed"]
                     ELSE [got EXCEPT !.line = <<>>, !.pc = "second"]
    /\ ReadFrame

\* http.ReadResponse(bufio.NewReader(connection), &req): the buffered reader
\* takes from the connection what has arrived, at least the header block;
\* the response is parsed up to the end of the header block.
ReadResponseReturns ==
    /\ rd.impl = "ReadResponse"
    /\ rd.pc = "status"
    /\ \E n \in HeaderBlockEnd(rd.stream)..Len(rd.stream) :
          LET line == SubSeq(rd.stream, 1, Find(rd.stream, CRLF) - 1)
              res == ReadResponse(ConnectEnv("ok", "ok", line, "ok"))
              got == [rd EXCEPT !.pos = n, !.consumed = n,
                                !.next = HeaderBlockEnd(rd.stream)]
          IN  rd' = IF res.err \/ res.StatusCode # 200
                    THEN [got EXCEPT !.pc = "failed"]
                    ELSE [got EXCEPT !.pc = "connected",
                                     !.bodyLeft = BodyLength(rd.stream)]
    /\ ReadFrame

\* The next Read of one byte on the connection doHTTPConnect returned: from
\* the connection itself in the readLine generation, from the response
\* body (httpConnectResponseConn.Read) in the other.
ReadAfterConnect ==
    /\ rd.pc = "connected"
    /\ ~rd.eof
    /\ IF rd.impl = "ReadResponse" /\ rd.bodyLeft = 0
       THEN rd' = [rd EXCEPT !.eof = TRUE]
       ELSE /\ rd.next < Len(rd.stream)
            /\ rd' = [rd EXCEPT
                        !.seen = Append(@, rd.stream[rd.next + 1]),
                        !.next = @ + 1,
                        !.pos = IF rd.next + 1 > @ THEN rd.next + 1 ELSE @,
                        !.bodyLeft = IF @ > 0 THEN @ - 1 ELSE @]
    /\ ReadFrame

ReadNext == ReadLineByte \/ ReadResponseReturns \/ ReadAfterConnect

SpecReadLine == ReadInit /\ [][ReadNext]_vars

\* A peer that goes on sending without ever ending the line: as the whole
\* response, and after an accepting status line.
Endless(n) == [k \in 1..n |-> "x"]

EndlessStreams ==
    { pre \o Endless(StatusLineLimit + 1 + n) :
        pre \in { <<>>, Prefix10_200 \o <<" ", "O", "K">> \o CRLF },
        n \in 0..MaxBytes }

LimitInit ==
    /\ \E stream \in EndlessStreams : rd = ReadStart("readLine", stream)
    /\ hijack = <<>>
    /\ relay = <<>>
    /\ plain = <<>>
    /\ req = <<>>
    /\ bridge = <<>>
    /\ serve = <<>>
    /\ dial = NoDial
    /\ fp = <<>>
    /\ PoolIdle

LimitNext == ReadLineByte

SpecLineLimit == LimitInit /\ [][LimitNext]_vars

\* ------------- SpecBridge: one run of handleRequest of a Configuration

\* make([]byte, 39): the length of "HTTP/1.0 200 Connection established"
\* and the two line ends the handler expects.
BridgeReplyLen == 39

Established ==
    <<"H", "T", "T", "P", "/", "1", ".", "0", " ", "2", "0", "0", " ", "C",
      "o", "n", "n", "e", "c", "t", "i", "o", "n", " ", "e", "s", "t", "a",
      "b", "l", "i", "s", "h", "e", "d", "\r", "\n", "\r", "\n">>

Forbidden ==
    <<"H", "T", "T", "P", "/", "1", ".", "0", " ", "4", "0", "3", " ", "F",
      "o", "r", "b", "i", "d", "d", "e", "n", "\r", "\n", "\r", "\n">>

\* What the bridge does after the CONNECT: the text it sends and whether it
\* closes the connection after that text.
BridgeReplies ==
    { [text |-> Established \o Payload(n), closes |-> FALSE] : n \in 0..MaxBytes }
    \cup { [text |-> Forbidden, closes |-> TRUE], [text |-> <<>>, closes |-> TRUE] }

\* handleRequest(client, item). viaBridge stands for item.Bridge != "". pc:
\* "dial" (before net.Dial), "connect" (before the CONNECT is written),
\* "read" (inside io.ReadFull), "relay" (before the go statements),
\* "relaying", and the ends "failed" (returned after an error) and "done"
\* (a forward goroutine has returned). client and sock are the states of
\* the client connection and of the socket to the bridge ("none" before the
\* dial), request is what was written to the bridge, read the number of
\* bytes ReadFull has read, relays the number of forward goroutines started.
BridgeStart(viaBridge, reply) ==
    [viaBridge |-> viaBridge, reply |-> reply, pc |-> "dial", client |-> "open",
     sock |-> "none", request |-> <<>>, read |-> 0, relays |-> 0]

BridgeInit ==
    /\ \E viaBridge \in BOOLEAN, reply \in BridgeReplies :
          bridge = BridgeStart(viaBridge, reply)
    /\ hijack = <<>>
    /\ relay = <<>>
    /\ plain = <<>>
    /\ req = <<>>
    /\ rd = <<>>
    /\ serve = <<>>
    /\ dial = NoDial
    /\ fp = <<>>
    /\ PoolIdle

BridgeFrame == UNCHANGED <<hijack, relay, plain, req, rd, serve, dial, fp,
                           poolVars>>

\* bridge, err := net.Dial("tcp", bridgename); if err != nil { return }
BridgeDial ==
    /\ bridge.pc = "dial"
    /\ \E ok \in BOOLEAN :
          bridge' = IF ~ok THEN [bridge EXCEPT !.pc = "failed"]
                    ELSE [bridge EXCEPT !.sock = "open",
                             !.pc = IF bridge.viaBridge THEN "connect" ELSE "relay"]
    /\ BridgeFrame

\* fmt.Fprintf(bridge, "CONNECT %s:%s HTTP/1.0\r\n\r\n\r\n", ...)
BridgeConnect ==
    /\ bridge.pc = "connect"
    /\ bridge' = [bridge EXCEPT
                    !.request = <<"CONNECT", " ">> \o HostB \o <<":", "443", " ">>
                                    \o HTTP10 \o CRLF \o CRLF \o CRLF,
                    !.pc = "read"]
    /\ BridgeFrame

\* _, err = io.ReadFull(bridge, make([]byte, 39)), one byte of it, or its
\* error when the bridge closes first; if err != nil { return }
BridgeRead ==
    /\ bridge.pc = "read"
    /\ IF bridge.read < Len(bridge.reply.text)
       THEN bridge' = [bridge EXCEPT
                          !.read = @ + 1,
                          !.pc = IF bridge.read + 1 = BridgeReplyLen
                                 THEN "relay" ELSE @]
       ELSE /\ bridge.reply.closes
            /\ bridge' = [bridge EXCEPT !.pc = "failed"]
    /\ BridgeFrame

\* remote := tls.Client(bridge, ...); go forward(client, remote);
\* go forward(remote, client)
BridgeStartRelay ==
    /\ bridge.pc = "relay"
    /\ bridge' = [bridge EXCEPT !.relays = 2, !.pc = "relaying"]
    /\ BridgeFrame

\* forward: the copy of one direction has ended; src.Close(); dst.Close()
BridgeForwardEnds ==
    /\ bridge.pc = "relaying"
    /\ bridge' = [bridge EXCEPT !.client = "closed", !.sock = "closed",
                                !.pc = "done"]
    /\ BridgeFrame

BridgeNext ==
    \/ BridgeDial
    \/ BridgeConnect
    \/ BridgeRead
    \/ BridgeStartRelay
    \/ BridgeForwardEnds

SpecBridge == BridgeInit /\ [][BridgeNext]_vars

\* ------------------ SpecServe: one CONNECT request in the HTTP handler

\* ServeHTTP for a request with method CONNECT, and serveHTTPConnect it
\* calls. pc: "dial" (before DialProxy), "forward" (before r.WriteProxy),
\* "hijack" (before Hijack), "relay" (before the copyAndClose calls),
\* "relaying", "done" (serveHTTPConnect returned nil), "error" (it returned
\* an error), "answered" (ServeHTTP has written the 500 response) and
\* "panic". remote and err are the function's variables, tunnel the state
\* of the socket the dial opened ("none" when it opened none), relays the
\* number of copyAndClose calls running or run, status the status code
\* written to the client, and trace the steps taken, in order.
ServeStart(peers) ==
    [peers |-> peers, pc |-> "dial", remote |-> NilConn, err |-> NoErr,
     tunnel |-> "none", relays |-> 0, status |-> 0, trace |-> <<>>]

ServeInit ==
    /\ \E peers \in ChainsOver(DialPeers, MaxChainLen) : serve = ServeStart(peers)
    /\ hijack = <<>>
    /\ relay = <<>>
    /\ plain = <<>>
    /\ req = <<>>
    /\ rd = <<>>
    /\ bridge = <<>>
    /\ dial = NoDial
    /\ fp = <<>>
    /\ PoolIdle

ServeFrame == UNCHANGED <<hijack, relay, plain, req, rd, bridge, dial, fp,
                          poolVars>>

\* remote, err := DialProxy(proxy.peers); if err != nil { return err }
ServeDial ==
    /\ serve.pc = "dial"
    /\ \E script \in DialScriptsOver(Len(serve.peers), PoolConnectEnvs) :
          LET d == DialProxyInternal(serve.peers, script, 1)
              res == ConnResult(d.connection, d.err)
              ret == DialProxyReturn(res)
              got == [serve EXCEPT !.trace = Append(@, "dial"),
                                   !.tunnel = IF res.c # NilConn THEN "open" ELSE @]
          IN  serve' =
                IF res.c = NilConn THEN [got EXCEPT !.pc = "panic", !.err = res.e]
                ELSE [got EXCEPT !.remote = ret.c, !.err = ret.e,
                                 !.pc = IF ret.e # NoErr THEN "error" ELSE "forward"]
    /\ ServeFrame

\* if err = r.WriteProxy(remote); err != nil { return err }
ServeForward ==
    /\ serve.pc = "forward"
    /\ \E ok \in BOOLEAN :
          serve' = [serve EXCEPT
                      !.trace = Append(@, "forward"),
                      !.err = IF ok THEN NoErr ELSE Err("write", <<>>),
                      !.pc = IF ok THEN "hijack" ELSE "error"]
    /\ ServeFrame

\* conn, _, err := w.(http.Hijacker).Hijack(); if err != nil { return err }
ServeHijack ==
    /\ serve.pc = "hijack"
    /\ \E ok \in BOOLEAN :
          serve' = [serve EXCEPT
                      !.trace = Append(@, "hijack"),
                      !.err = IF ok THEN NoErr ELSE Err("hijack", <<>>),
                      !.pc = IF ok THEN "relay" ELSE "error"]
    /\ ServeFrame

\* go copyAndClose(conn, remote); copyAndClose(remote, conn) is entered
ServeRelay ==
    /\ serve.pc = "relay"
    /\ serve' = [serve EXCEPT !.trace = Append(@, "relay"), !.relays = 2,
                              !.pc = "relaying"]
    /\ ServeFrame

\* copyAndClose(remote, conn) returns: it has called Close on both
\* connections; return nil
ServeRelayEnds ==
    /\ serve.pc = "relaying"
    /\ serve' = [serve EXCEPT
                    !.tunnel = IF ClosesSocket(serve.remote) THEN "closed" ELSE @,
                    !.pc = "done"]
    /\ ServeFrame

\* ServeHTTP: log.Println(err); w.WriteHeader(500); w.Write(err.Error())
ServeAnswerError ==
    /\ serve.pc = "error"
    /\ serve' = [serve EXCEPT !.status = 500, !.pc = "answered"]
    /\ ServeFrame

ServeNext ==
    \/ ServeDial
    \/ ServeForward
    \/ ServeHijack
    \/ ServeRelay
    \/ ServeRelayEnds
    \/ ServeAnswerError

SpecServe == ServeInit /\ [][ServeNext]_vars

\* ================================================================= claims

\* What a successful dial of the first k peers must have done, in order: the
\* TCP dial for peer 0, one CONNECT for every later peer, and after each of
\* them a handshake when the peer has a TLS configuration.
RECURSIVE ExpectedEvents(_, _)
ExpectedEvents(peers, k) ==
    IF k = 0 THEN <<>>
    ELSE ExpectedEvents(peers, k - 1)
         \o (IF k = 1 THEN << <<"dial", 0>> >> ELSE << <<"CONNECT", k - 1>> >>)
         \o (IF peers[k].TLS THEN << <<"TLS", k - 1>> >> ELSE <<>>)

CountEvents(events, ev) ==
    Cardinality({ k \in 1..Len(events) : events[k] = ev })

\* C1: a successful dial of a chain of n peers has issued exactly n-1 CONNECT
\* requests (none for peer 0, one for each later peer) and exactly one TLS
\* handshake for each peer with a TLS configuration and none for the others,
\* all in hop order.
C1_ConnectsAndHandshakesInHopOrder ==
    (dial.pc = "done" /\ dial.err = NoErr) =>
        LET n == Len(dial.peers)
        IN  /\ dial.events = ExpectedEvents(dial.peers, n)
            /\ Cardinality({ k \in 1..Len(dial.events) :
                               dial.events[k][1] = "CONNECT" }) = n - 1
            /\ CountEvents(dial.events, <<"CONNECT", 0>>) = 0
            /\ \A j \in 1..n :
                  /\ j > 1 => CountEvents(dial.events, <<"CONNECT", j - 1>>) = 1
                  /\ CountEvents(dial.events, <<"TLS", j - 1>>)
                        = IF dial.peers[j].TLS THEN 1 ELSE 0

\* C1's case: a dial of two or more peers, with and without TLS, succeeded.
C1_Witness ==
    /\ dial.pc = "done"
    /\ dial.err = NoErr
    /\ Len(dial.peers) >= 2
    /\ \E j \in 1..Len(dial.peers) : dial.peers[j].TLS
    /\ \E j \in 1..Len(dial.peers) : ~dial.peers[j].TLS

\* The hop of the last CONNECT request made.
LastConnectAt(d) ==
    CHOOSE k \in 1..Len(d.events) :
        /\ d.events[k][1] = "CONNECT"
        /\ \A j \in (k + 1)..Len(d.events) : d.events[j][1] # "CONNECT"

\* The dial stopped at the CONNECT for hop i: it returned an error naming
\* that hop and did nothing after that CONNECT request.
StoppedAtConnect(d) ==
    LET k == LastConnectAt(d)
        i == d.events[k][2]
    IN  /\ d.pc = "done"
        /\ d.err # NoErr
        /\ d.err.host = d.peers[i + 1].HostName
        /\ k = Len(d.events)

NoOkPrefix(line) ==
    ~HasPrefix(line, Prefix10_200) /\ ~HasPrefix(line, Prefix11_200)

Refused(d) ==
    /\ d.reply.write = "ok"
    /\ \/ d.reply.read = "err"
       \/ d.impl = "readLine" /\ NoOkPrefix(d.reply.line)
       \/ d.impl = "ReadResponse"
            /\ (ReadResponse(d.reply).err \/ ReadResponse(d.reply).StatusCode # 200)

Returned(h) == handlers[h].pc \in {"failed", "relaying"}

\* C3: a failed dial hands its caller the connection obtained so far: the
\* background dial returns it with the error whenever the first hop was
\* reached, and DialProxy returns with the error the connection of the
\* result it received.
C3_FailedDialReturnsConnection ==
    /\ \A k \in 1..Len(tasks) :
          (tasks[k].pc = "send" /\ tasks[k].res.e # NoErr
              /\ tasks[k].res.e.kind # "dial tcp")
          => tasks[k].res.c # NilConn
    /\ \A h \in DOMAIN handlers :
          (Returned(h) /\ handlers[h].ret.e # NoErr)
          => handlers[h].ret.c = handlers[h].res.c

\* C4: no connection is returned to two callers, and no published result
\* that carries a connection is received by two callers.
C4_NoConnectionHandedOutTwice ==
    \A h1, h2 \in DOMAIN handlers :
        h1 # h2 =>
            /\ handlers[h1].res.c # NilConn
                  => handlers[h1].res.c.sock # handlers[h2].res.c.sock
            /\ handlers[h1].ret.c # NilConn
                  => handlers[h1].ret.c.sock # handlers[h2].ret.c.sock

\* C4's case: two callers of the same key have both received a connection
\* from the same channel.
C4_Witness ==
    \E h1, h2 \in DOMAIN handlers :
        /\ h1 # h2
        /\ handlers[h1].chn = handlers[h2].chn
        /\ handlers[h1].chn # 0
        /\ handlers[h1].ret.c # NilConn
        /\ handlers[h2].ret.c # NilConn

\* C5: every key has at most one channel and one background task, and the
\* map entry of a key, once set, is the channel of that task.
C5_OneTaskPerFingerprint ==
    \A key \in PoolKeys :
        /\ Cardinality({ k \in 1..Len(tasks) :
                           tasks[k].peersAsString = key }) <= 1
        /\ \A k \in 1..Len(tasks) :
              tasks[k].peersAsString = key => tcpConnections[key] = k

\* C6: a caller that has received a result carrying an error has returned
\* that error: it neither panics nor goes back to receive another result.
C6_ErrorReturnedAtOnce ==
    \A h \in DOMAIN handlers :
        handlers[h].res.e # NoErr =>
            /\ handlers[h].pc \notin {"recv", "panic"}
            /\ handlers[h].ret.e = handlers[h].res.e

\* C7: neither the connection DialProxy returns nor the connection of the
\* result whose error it returns was closed by its peer while it waited in
\* the pool: the probe detects the close, the result is dropped and the
\* caller is back at the channel receive.
C7_ClosedPooledConnectionNeverReturned ==
    \A h \in DOMAIN handlers :
        /\ handlers[h].ret.c # NilConn => socks[handlers[h].ret.c.sock] = "open"
        /\ handlers[h].res.c # NilConn => socks[handlers[h].res.c.sock] = "open"

\* C8: two chains have the same pool key exactly when they are the same
\* chain.
C8_SameKeyIffSameChain ==
    fp # <<>> /\ fp.computed => ((fp.keyA = fp.keyB) <=> (fp.a = fp.b))

\* C9: for every key at most one established connection waits to be claimed.
C9_OneWarmSparePerFingerprint ==
    \A key \in PoolKeys :
        Cardinality({ k \in 1..Len(tasks) :
                        /\ tasks[k].peersAsString = key
                        /\ tasks[k].pc = "send"
                        /\ tasks[k].res.e = NoErr }) <= 1

\* C10: a handler that found no server name (parse error or empty host) has
\* closed its client and has started nothing: no DialProxy call, no
\* background task, no CONNECT, no relay.
C10_NoSNIClosesWithoutDial ==
    \A h \in DOMAIN handlers :
        (handlers[h].pc # "accepted"
            /\ (handlers[h].sni.err \/ handlers[h].sni.host = <<>>))
        => /\ handlers[h].pc = "rejected"
           /\ handlers[h].client = "closed"
           /\ handlers[h].dialCalls = 0
           /\ handlers[h].chn = 0
           /\ handlers[h].connects = 0
           /\ handlers[h].relays = 0
           /\ \A k \in 1..Len(tasks) : tasks[k].by # h

\* C10's case: one handler got an empty server name and was rejected while
\* another one is relaying.
C10_Witness ==
    \E h1, h2 \in DOMAIN handlers :
        /\ handlers[h1].pc = "rejected"
        /\ ~handlers[h1].sni.err
        /\ handlers[h1].sni.host = <<>>
        /\ handlers[h2].pc = "relaying"

\* C11: a hijacker run that ended because the chain dial or the final
\* CONNECT failed has closed the client connection, has started no relay
\* goroutine and has written no byte to the client.
C11_FailureClosesClientSilently ==
    hijack.pc \in {"failed", "panic"} =>
        /\ hijack.client = "closed"
        /\ hijack.relays = 0
        /\ hijack.toClient = 0

\* C11's case: the chain was dialed and the final CONNECT was refused.
C11_Witness ==
    /\ hijack.pc = "failed"
    /\ hijack.request # <<>>
    /\ Len(hijack.peers) >= 2

\* The hops of a run: the peers reached by a TCP dial or a CONNECT.
Hops(events) ==
    Cardinality({ k \in 1..Len(events) : events[k][1] \in {"dial", "CONNECT"} })

\* The last CONNECT request of the hijacker asks for host h, port 443.
TargetsServerName443(h) ==
    HasPrefix(h.request,
              <<"CONNECT", " ">> \o h.sni.host \o <<":", "4", "4", "3", " ">>)

\* C12 as stated: once the hijacker is connected, its last CONNECT asked for
\* the server name on port 443 whatever the listen port, and the hops
\* traversed are as many as the configured chain has peers (the target
\* having taken the place of the chain's last hop).
C12_FinalHopSubstituted ==
    hijack # <<>> /\ hijack.pc \in {"connected", "relaying"} =>
        /\ TargetsServerName443(hijack)
        /\ Hops(hijack.events) = Len(hijack.peers)

\* C12, amended: the hijacker dials the whole configured chain as it is and
\* then sends one more CONNECT through the chain's last peer; that last
\* CONNECT asks for the server name on port 443 whatever the listen port,
\* and the hops traversed are every configured peer and then the target:
\* the chain length plus one.
C12_ChainThenServerName443 ==
    hijack # <<>> /\ hijack.pc \in {"connected", "relaying"} =>
        LET n == Len(hijack.peers)
        IN  /\ TargetsServerName443(hijack)
            /\ hijack.request = RequestWrite(Peer(hijack.sni.host, 443, FALSE, NoExtra),
                                             hijack.peers[n])
            /\ hijack.events
                  = Append(ExpectedEvents(hijack.peers, n), <<"CONNECT", n>>)
            /\ Hops(hijack.events) = n + 1

\* C12's case: a connection accepted on another port than 443 is relayed
\* through a chain of two peers.
C12_Witness ==
    /\ hijack.pc = "relaying"
    /\ hijack.laddr # 443
    /\ Len(hijack.peers) = 2

\* The state of the specification's state machine a place in
\* hijackTLSRequest stands for. The chain counts as dialed once the final
\* CONNECT has succeeded; a panic in DialProxy is a failed dial.
HijackState(pc) ==
    CASE pc = "accepted" -> "ACCEPTED"
      [] pc \in {"parsed", "dialed"} -> "SNI_PARSED"
      [] pc = "connected" -> "CHAIN_DIALED"
      [] pc = "relaying" -> "RELAYING"
      [] pc = "rejected" -> "REJECTED"
      [] pc \in {"failed", "panic"} -> "FAILED"

\* The transitions of the state machine, and staying in a state.
HijackTransitions ==
    { <<"ACCEPTED", "SNI_PARSED">>, <<"SNI_PARSED", "CHAIN_DIALED">>,
      <<"CHAIN_DIALED", "RELAYING">> }
    \cup { <<x, y>> : x \in {"ACCEPTED", "SNI_PARSED", "CHAIN_DIALED"},
                      y \in {"REJECTED", "FAILED"} }
    \cup { <<x, x>> : x \in {"ACCEPTED", "SNI_PARSED", "CHAIN_DIALED"} }

\* The run so far is a path of the state machine from ACCEPTED, and a run
\* that relays has a server name and a chain dialed completely, without
\* error.
FollowsStateMachine(h) ==
    /\ HijackState(h.trace[1]) = "ACCEPTED"
    /\ h.trace[Len(h.trace)] = h.pc
    /\ \A k \in 1..(Len(h.trace) - 1) :
          <<HijackState(h.trace[k]), HijackState(h.trace[k + 1])>>
              \in HijackTransitions
    /\ h.pc = "relaying" =>
          /\ ~SNIMissing(h.sni)
          /\ h.err = NoErr
          /\ h.events = Append(ExpectedEvents(h.peers, Len(h.peers)),
                               <<"CONNECT", Len(h.peers)>>)

\* Nothing is dialed, connected or relayed in a step from REJECTED or FAILED.
AbsorbingStep ==
    HijackState(hijack.pc) \in {"REJECTED", "FAILED"} =>
        /\ hijack'.pc = hijack.pc
        /\ hijack'.events = hijack.events
        /\ hijack'.relays = hijack.relays
        /\ hijack'.toClient = hijack.toClient

\* C13: every hijacked connection follows ACCEPTED -> SNI_PARSED ->
\* CHAIN_DIALED -> RELAYING: it relays only after the server name was parsed
\* and then the chain dialed successfully, and REJECTED and FAILED are
\* absorbing: no dial, CONNECT or relay follows them.
C13_HijackStateMachine ==
    /\ [](FollowsStateMachine(hijack))
    /\ [][AbsorbingStep]_vars

\* C13's case: one connection went all the way to relaying bytes.
C13_Witness ==
    /\ hijack.trace = <<"accepted", "parsed", "dialed", "connected", "relaying">>
    /\ hijack.toClient > 0

\* Both endpoints of the relay have their sockets closed and both copiers
\* have returned.
RelayOver ==
    /\ \A e \in {"a", "b"} : relay.ends[e].sock = "closed"
    /\ \A c \in Copiers : relay.g[c].pc = "done"

\* C14: once either direction has seen EOF or an error, both endpoints are
\* eventually closed and both copiers eventually return.
C14_EndOfOneDirectionEndsRelay ==
    (\E c \in Copiers : relay.g[c].ended) ~> RelayOver

\* C15: Close is called at most once on each endpoint of a relay, and
\* exactly once on each when both copiers have returned.
C15_EachEndpointClosedOnce ==
    \A e \in {"a", "b"} :
        /\ relay.ends[e].closes <= 1
        /\ (\A c \in Copiers : relay.g[c].pc = "done") => relay.ends[e].closes = 1

\* C16: in each direction the bytes written to the destination are a prefix
\* of the bytes read from the source, which are a prefix of what the remote
\* side of the source has sent: nothing dropped, doubled, inserted or
\* reordered.
C16_DeliveredIsPrefixOfRead ==
    \A c \in Copiers :
        LET src == relay.ends[relay.g[c].src]
            dst == relay.ends[relay.g[c].dst]
        IN  /\ HasPrefix(src.got, dst.out)
            /\ src.got \o src.inq
                  = [k \in 1..src.sent |-> StreamByte(relay.g[c].src, k)]

\* C16's case: every byte both sides sent has been delivered to the other.
C16_Witness ==
    /\ Len(relay.ends["a"].out) = MaxBytes
    /\ Len(relay.ends["b"].out) = MaxBytes
    /\ relay.ends["b"].kind = "wrapped"

\* text is an HTTP/1.0 response with status 502, a Content-Type text/plain
\* header, a Content-Length header that gives the length of the body, and a
\* body that contains errText.
Is502Response(text, errText) ==
    LET blank == Find(text, CRLF \o CRLF)
        head == SubSeq(text, 1, blank + 1)
        body == SubSeq(text, blank + 4, Len(text))
        cl == Find(head, CRLF \o ContentLengthName)
        value == SubSeq(head, cl + 2 + Len(ContentLengthName), Len(head))
        digits == SubSeq(value, 1, Find(value, CRLF) - 1)
    IN  /\ blank > 0
        /\ HasPrefix(text, HTTP10 \o <<" ", "5", "0", "2", " ">>)
        /\ Find(head, CRLF \o ContentTypePlain \o CRLF) > 0
        /\ cl > 0
        /\ digits # <<>>
        /\ \A k \in 1..Len(digits) : IsDigit(digits[k])
        /\ Atoi(digits) = Len(body)
        /\ Find(body, errText) > 0

\* C17: in plain mode a failed chain dial ends with the 502 response written
\* to the client, then the client closed, the connection the dial had got
\* so far closed as well, and no relay started.
C17_DialFailureAnswers502 ==
    /\ plain.pc \in {"failed", "panic"} =>
          /\ Is502Response(plain.toClient, ErrorText(plain.err))
          /\ plain.client = "closed"
          /\ plain.partial # "open"
          /\ plain.relays = 0
    /\ plain.client = "closed" =>
          Is502Response(plain.toClient, ErrorText(plain.err))

\* C18: the request written to reach peer i is the line
\* CONNECT host_i:port_i HTTP/1.0, one Name: value line for each extra header
\* of peer i-1 and no other header line, and one terminating CRLF.
C18_ConnectRequestExact ==
    \A k \in 1..Len(req.written) :
        LET peer == req.peers[k + 1]
            prev == req.peers[k]
        IN  \E o \in Orders(prev.ConnectExtra) :
                req.written[k] =
                    <<"CONNECT", " ">> \o peer.HostName \o <<":">>
                        \o FormatInt(peer.Port) \o <<" ", "HTTP/1.0">> \o CRLF
                        \o HeaderLines(o) \o CRLF

\* C19: once a CONNECT is accepted the dialer has taken from the connection
\* the status line and one further CRLF-terminated line and no byte more,
\* and what is read next on the connection starts with the byte after that
\* line.
C19_ConsumesStatusLineAndOneLine ==
    rd.pc = "connected" =>
        LET l1 == Find(rd.stream, CRLF) + 1
            l2 == l1 + Find(SubSeq(rd.stream, l1 + 1, Len(rd.stream)), CRLF) + 1
        IN  /\ rd.consumed = l2
            /\ ~rd.eof
            /\ rd.seen = SubSeq(rd.stream, l2 + 1, l2 + Len(rd.seen))

\* C20: a failure while serving one client (no server name, a failed dial,
\* a refused CONNECT, a failed handshake) ends that client's handler only:
\* it is no fault that ends the process, so the other handlers go on.
C20_FailureStaysLocal ==
    \A h \in Handlers :
        handlers[h].pc \in {"rejected", "failed", "panic"} =>
            /\ handlers[h].pc # "panic"
            /\ crashed =>
                  \E g, k \in Handlers :
                      /\ g # k
                      /\ handlers[g].pc = "register"
                      /\ handlers[k].pc = "register"

\* The peers of a chain that have a TLS configuration.
TLSPeers(peers) == { j \in 1..Len(peers) : peers[j].TLS }

\* The TLS layers of a connection, innermost first.
IsTLSLayer(layer) == layer = "tls"

\* C21: the connection a successful dial returns carries one TLS layer for
\* each peer with a TLS configuration and no other TLS layer; when the last
\* peer has a TLS configuration the outermost layer is the TLS session with
\* it, and a chain of one plain peer gives the raw TCP connection.
C21_TLSLayerPerTLSPeer ==
    (dial.pc = "done" /\ dial.err = NoErr) =>
        LET n == Len(dial.peers)
            layers == dial.connection.layers
        IN  /\ dial.connection.sock # 0
            /\ Len(SelectSeq(layers, IsTLSLayer)) = Cardinality(TLSPeers(dial.peers))
            /\ dial.peers[n].TLS => (layers # <<>> /\ layers[Len(layers)] = "tls")
            /\ (n = 1 /\ ~dial.peers[1].TLS) => layers = <<>>

\* C21's case: the chain of a plain peer and a TLS peer was dialed, and so
\* was a chain of one plain peer.
C21_Witness ==
    /\ dial.pc = "done"
    /\ dial.err = NoErr
    /\ Len(dial.peers) = 2
    /\ ~dial.peers[1].TLS
    /\ dial.peers[2].TLS
    /\ dial.connection.layers # <<>>

C23_LineReadsBounded ==
    rd.pc \in {"status", "second", "failed"} => Len(rd.line) <= StatusLineLimit

\* C24: a connection DialProxy returns to a caller was dialed with the peers
\* that caller passed, TLS configurations and extra headers included.
C24_ConnectionDialedWithCallersPeers ==
    \A h \in DOMAIN handlers :
        handlers[h].ret.c # NilConn
        => tasks[handlers[h].chn].peers = handlers[h].peers

\* C25: every socket the background dialers have opened is still offered by
\* its task, or was returned to exactly one caller, or has been closed by
\* the pool.
C25_PoolKeepsTrackOfSockets ==
    \A s \in 1..MaxSocks :
        \/ socks[s] \in {"free", "closed"}
        \/ \E k \in 1..Len(tasks) : tasks[k].pc = "send" /\ tasks[k].res.c.sock = s
        \/ Cardinality({ h \in DOMAIN handlers : handlers[h].ret.c.sock = s }) = 1

\* C26: the hijacker leaves no tunnel connection open once it has closed
\* the client: after a chain dial that failed with a partial connection and
\* after a failed final CONNECT the connection obtained from the dial is
\* closed.
C26_TunnelClosedWithClient ==
    hijack.client = "closed" => hijack.tunnel # "open"

\* C27: Close of the connection a successful dial returns closes the TCP
\* socket to the first peer, whatever the shape of the chain.
C27_CloseReachesSocket ==
    (dial.pc = "done" /\ dial.err = NoErr) => ClosesSocket(dial.connection)

\* C28: a handler that has returned after a failure, or whose relay has
\* ended, has closed the client connection it was given (here: the handler
\* of a Configuration).
C28_ClientClosedOnEveryPath ==
    bridge.pc \in {"failed", "done"} => bridge.client = "closed"

\* C29: serveHTTPConnect dials the chain, forwards the request, hijacks the
\* client connection and relays, in this order; when a step fails the
\* error is returned, no relay is started and the connection the dial
\* obtained is closed.
C29_ConnectPathClosesTunnelOnFailure ==
    /\ HasPrefix(<<"dial", "forward", "hijack", "relay">>, serve.trace)
    /\ serve.pc \in {"error", "answered", "panic"} =>
          /\ serve.pc # "panic"
          /\ serve.err # NoErr
          /\ serve.relays = 0
          /\ serve.tunnel # "open"

\* C30: every call of DialProxy that has reached its channel receive
\* eventually returns, with a connection or with an error.
C30_AcquireEventuallyReturns ==
    \A h \in Handlers :
        (handlers[h].pc = "recv") ~> (handlers[h].pc \in {"failed", "relaying"})

====
